---- MODULE Spec2Model ----
(***************************************************************************)
(* The Vionix backend (src/main.py): the chat endpoint with its rule-based *)
(* reply engine, the message listing endpoint, and the document store they *)
(* write to and read from.                                                 *)
(*                                                                         *)
(* A Python str is a sequence of one-character strings.  A character       *)
(* outside ASCII is written by its code point: "U+2026" is the ellipsis,   *)
(* "U+2022" the bullet, "U+2019" the right single quote, "U+2011" the      *)
(* non-breaking hyphen.  Optional[T] is a set: {} is None, {v} is v.       *)
(***************************************************************************)
EXTENDS Naturals, Sequences, FiniteSets, Bags, TLC

VARIABLES db, store, pending, response, turns

vars == <<db, store, pending, response, turns>>

----------------------------------------------------------------------------
(* Bounds of the model *)

\* documents the store may hold
MaxStore == 4
\* chat requests that may be between their two writes at once
MaxInFlight == 2
\* length of the exhaustively enumerated message bodies
MaxBody == 2
\* how far past SummaryLimit the padded bodies reach
MaxOver == 1

(* Constants of the program *)

SummaryLimit == 200
DefaultLimit == 50
MinLimit == 1
MaxLimit == 200
MinMessageLength == 1

----------------------------------------------------------------------------
(* Optional values *)

None == {}
Some(v) == {v}
Value(opt) == CHOOSE v \in opt : TRUE

----------------------------------------------------------------------------
(* Python str operations *)

UpperLetters ==
  <<"A", "B", "C", "D", "E", "F", "G", "H", "I", "J", "K", "L", "M", "N", "O", "P", "Q", "R",
    "S", "T", "U", "V", "W", "X", "Y", "Z">>
LowerLetters ==
  <<"a", "b", "c", "d", "e", "f", "g", "h", "i", "j", "k", "l", "m", "n", "o", "p", "q", "r",
    "s", "t", "u", "v", "w", "x", "y", "z">>

\* str.strip() with no argument strips these
Whitespace == {" ", "\n", "\t", "\r", "\f"}

\* the lower-case letter of each upper-case letter
LowerOf ==
  [c \in {UpperLetters[k] : k \in 1..Len(UpperLetters)} |->
     LowerLetters[CHOOSE k \in 1..Len(UpperLetters) : UpperLetters[k] = c]]

LowerChar(c) == IF c \in DOMAIN LowerOf THEN LowerOf[c] ELSE c

\* s.lower()
Lower(s) == [i \in 1..Len(s) |-> LowerChar(s[i])]

\* s.lstrip(chars)
RECURSIVE LStrip(_, _)
LStrip(s, chars) ==
  IF s = <<>> \/ s[1] \notin chars THEN s ELSE LStrip(Tail(s), chars)

\* s.rstrip(chars)
RECURSIVE RStrip(_, _)
RStrip(s, chars) ==
  IF s = <<>> \/ s[Len(s)] \notin chars THEN s
  ELSE RStrip(SubSeq(s, 1, Len(s) - 1), chars)

\* s.strip(chars)
Strip(s, chars) == LStrip(RStrip(s, chars), chars)

\* sub in s
Contains(s, sub) ==
  \E i \in 0..(Len(s) - Len(sub)) : \A j \in 1..Len(sub) : s[i + j] = sub[j]

\* s.startswith(p)
StartsWith(s, p) == Len(s) >= Len(p) /\ SubSeq(s, 1, Len(p)) = p

\* s.split(c, 1)[1], for s that holds c
AfterFirst(s, c) ==
  LET at == CHOOSE i \in 1..Len(s) : s[i] = c /\ \A j \in 1..(i - 1) : s[j] # c
  IN  SubSeq(s, at + 1, Len(s))

\* s.split(c)
RECURSIVE Split(_, _)
Split(s, c) ==
  IF \A i \in 1..Len(s) : s[i] # c THEN <<s>>
  ELSE LET at == CHOOSE i \in 1..Len(s) : s[i] = c /\ \A j \in 1..(i - 1) : s[j] # c
       IN  <<SubSeq(s, 1, at - 1)>> \o Split(SubSeq(s, at + 1, Len(s)), c)

\* sep.join(parts)
RECURSIVE Join(_, _)
Join(parts, sep) ==
  IF Len(parts) = 0 THEN <<>>
  ELSE IF Len(parts) = 1 THEN parts[1]
  ELSE parts[1] \o sep \o Join(Tail(parts), sep)

\* s[:n]
Take(s, n) == SubSeq(s, 1, IF Len(s) < n THEN Len(s) ELSE n)

----------------------------------------------------------------------------
(* The reply rule engine, chat(), src/main.py lines 60-80 *)

GreetingKeywords == {<<"h", "e", "l", "l", "o">>, <<"h", "i">>, <<"h", "e", "y">>}
HelpKeywords == {<<"h", "e", "l", "p">>, <<"w", "h", "a", "t", " ", "c", "a", "n", " ", "y", "o", "u", " ",
                             "d", "o">>}
SummaryPrefixes == {<<"s", "u", "m", "m", "a", "r", "i", "z", "e", ":">>, <<"s", "u", "m", "m", "a", "r", "i", "s", "e", ":">>}
TodoPrefixes == {<<"t", "o", "d", "o", ":">>, <<"t", "a", "s", "k", ":">>}

GreetingReply ==
  <<"H", "e", "l", "l", "o", "!", " ", "I", "'", "m", " ", "V", "i", "o", "n", "i", "x", ",",
    " ", "y", "o", "u", "r", " ", "a", "l", "l", "U+2011", "i", "n", "U+2011", "o", "n", "e",
    " ", "A", "I", " ", "a", "s", "s", "i", "s", "t", "a", "n", "t", ".", " ", "H", "o", "w",
    " ", "c", "a", "n", " ", "I", " ", "h", "e", "l", "p", " ", "t", "o", "d", "a", "y", "?">>
HelpReply ==
  <<"I", " ", "c", "a", "n", " ", "o", "r", "g", "a", "n", "i", "z", "e", " ", "t", "a", "s",
    "k", "s", ",", " ", "s", "u", "m", "m", "a", "r", "i", "z", "e", " ", "t", "e", "x", "t",
    ",", " ", "d", "r", "a", "f", "t", " ", "e", "m", "a", "i", "l", "s", ",", " ", "b", "r",
    "a", "i", "n", "s", "t", "o", "r", "m", " ", "i", "d", "e", "a", "s", ",", " ", "a", "n",
    "d", " ", "a", "n", "s", "w", "e", "r", " ", "q", "u", "i", "c", "k", " ", "q", "u", "e",
    "s", "t", "i", "o", "n", "s", ".", " ", "T", "e", "l", "l", " ", "m", "e", " ", "w", "h",
    "a", "t", " ", "y", "o", "u", " ", "n", "e", "e", "d", ".">>
SummaryHeader ==
  <<"H", "e", "r", "e", "U+2019", "s", " ", "a", " ", "c", "o", "n", "c", "i", "s", "e", " ",
    "s", "u", "m", "m", "a", "r", "y", ":", " ">>
Ellipsis == <<"U+2026">>
TodoHeader ==
  <<"A", "d", "d", "e", "d", " ", "t", "o", " ", "y", "o", "u", "r", " ", "l", "i", "s", "t",
    ":", "\n">>
BulletPrefix == <<"U+2022", " ">>
ItemStripChars == {" ", "-", "U+2022"}
FallbackReply ==
  <<"G", "o", "t", " ", "i", "t", ".", " ", "I", "U+2019", "m", " ", "p", "r", "o", "c", "e",
    "s", "s", "i", "n", "g", " ", "y", "o", "u", "r", " ", "r", "e", "q", "u", "e", "s", "t",
    ".", " ", "I", "n", " ", "t", "h", "i", "s", " ", "d", "e", "m", "o", ",", " ", "I",
    "U+2019", "m", " ", "r", "u", "n", "n", "i", "n", "g", " ", "i", "n", " ", "l", "o", "c",
    "a", "l", " ", "s", "m", "a", "r", "t", " ", "m", "o", "d", "e", " ", "w", "i", "t", "h",
    "o", "u", "t", " ", "e", "x", "t", "e", "r", "n", "a", "l", " ", "L", "L", "M", "s", ",",
    " ", "s", "o", " ", "r", "e", "s", "p", "o", "n", "s", "e", "s", " ", "a", "r", "e", " ",
    "t", "e", "m", "p", "l", "a", "t", "e", "d", ".", " ", "T", "e", "l", "l", " ", "m", "e",
    " ", "i", "f", " ", "y", "o", "u", " ", "w", "a", "n", "t", " ", "a", " ", "s", "u", "m",
    "m", "a", "r", "y", ",", " ", "t", "o", "d", "o", ",", " ", "o", "r", " ", "g", "e", "n",
    "e", "r", "a", "l", " ", "h", "e", "l", "p", ".">>

\* text = req.message.strip().lower()
NormalizedText(message) == Lower(Strip(message, Whitespace))

IsBlank(line) == Strip(line, Whitespace) = <<>>
StripItem(line) == Strip(line, ItemStripChars)
Bullet(item) == BulletPrefix \o item
NotBlank(line) == ~IsBlank(line)

SummaryReplyNoEllipsis(message) ==
  LET content == IF Contains(message, <<":">>)
                   THEN Strip(AfterFirst(message, ":"), Whitespace)
                   ELSE message
  IN  SummaryHeader \o Take(content, SummaryLimit)

\* lines 69-71
SummaryReply(message) ==
  LET content == IF Contains(message, <<":">>)
                   THEN Strip(AfterFirst(message, ":"), Whitespace)
                   ELSE message
  IN  SummaryHeader \o Take(content, SummaryLimit)
        \o (IF Len(content) > SummaryLimit THEN Ellipsis ELSE <<>>)

TodoReplyKeepBlank(message) ==
  LET lines == Split(message, "\n")
      items == [i \in 1..Len(lines) |-> StripItem(lines[i])]
  IN  TodoHeader \o Join([i \in 1..Len(items) |-> Bullet(items[i])], <<"\n">>)

\* lines 73-75
TodoReply(message) ==
  LET lines == SelectSeq(Split(message, "\n"), NotBlank)
      items == [i \in 1..Len(lines) |-> StripItem(lines[i])]
  IN  TodoHeader \o Join([i \in 1..Len(items) |-> Bullet(items[i])], <<"\n">>)

GenerateReplyHelpFirst(message) ==
  LET text == NormalizedText(message)
  IN  IF \E k \in HelpKeywords : Contains(text, k) THEN HelpReply
      ELSE IF \E k \in GreetingKeywords : Contains(text, k) THEN GreetingReply
      ELSE IF \E p \in SummaryPrefixes : StartsWith(text, p) THEN SummaryReply(message)
      ELSE IF \E p \in TodoPrefixes : StartsWith(text, p) THEN TodoReply(message)
      ELSE FallbackReply

\* lines 60-80
GenerateReply(message) ==
  LET text == NormalizedText(message)
  IN  IF \E k \in GreetingKeywords : Contains(text, k) THEN GreetingReply
      ELSE IF \E k \in HelpKeywords : Contains(text, k) THEN HelpReply
      ELSE IF \E p \in SummaryPrefixes : StartsWith(text, p) THEN SummaryReply(message)
      ELSE IF \E p \in TodoPrefixes : StartsWith(text, p) THEN TodoReply(message)
      ELSE FallbackReply

----------------------------------------------------------------------------
(* The Message schema and the document store accessor (modules schemas and *)
(* database, which src/main.py imports)                                    *)

Roles == {"user", "assistant"}

\* Message(session_id=..., role=..., content=...)
Message(session_id, role, content) ==
  [session_id |-> session_id, role |-> role, content |-> content]

\* whether constructing the Message passes validation
ValidMessage(m) == m.role \in Roles

\* create_document("message", m): the store gains one document
create_document(docs, m) == Append(docs, m)

\* get_documents("message", {"session_id": s}, limit=n): the first n
\* documents of the session, in the store's order
get_documents(docs, session_id, limit) ==
  LET Matches(d) == "session_id" \in DOMAIN d /\ d.session_id = session_id
  IN  Take(SelectSeq(docs, Matches), limit)

----------------------------------------------------------------------------
(* Requests *)

\* session ids a client sends; "" is a string a client may send
ClientSessions == {"", "a"}
\* values of str(uuid.uuid4())
Uuids == {"uuid-1", "uuid-2"}

SessionArgs == {None} \cup {Some(s) : s \in ClientSessions}

\* messages of the chat requests of Spec
ChatMessages == {<<>>, <<"h", "i">>}

ChatRequests == [session_id : SessionArgs, message : ChatMessages]

\* session ids a client asks for: its own, or one a chat call returned
QuerySessions == ClientSessions \cup {"uuid-1"}
LimitInputs == {0, 1, MaxLimit, MaxLimit + 1}
LimitArgs == {None} \cup {Some(n) : n \in LimitInputs}

----------------------------------------------------------------------------
(* POST /api/chat *)

\* ChatRequest.message: Field(..., min_length=1)
ValidChatRequest(req) == Len(req.message) >= MinMessageLength

\* session_id = req.session_id or str(uuid.uuid4())
SessionFor(req, uuid) ==
  IF req.session_id # None /\ Value(req.session_id) # ""
    THEN Value(req.session_id)
    ELSE uuid

DbDetail == "Database not available"

\* the request body fails validation: the handler is not entered
ChatRejected(req) ==
  /\ ~ValidChatRequest(req)
  /\ response' = [op |-> "chat", status |-> 422, request |-> req]
  /\ UNCHANGED <<db, store, pending, turns>>

ChatUnavailableProceeds(req) ==
  /\ ValidChatRequest(req)
  /\ db = FALSE
  /\ store' = create_document(store, Message(SessionFor(req, "uuid-1"), "user", req.message))
  /\ response' = [op |-> "chat", status |-> 200, request |-> req,
                  session_id |-> SessionFor(req, "uuid-1"),
                  reply |-> GenerateReply(req.message)]
  /\ UNCHANGED <<db, pending, turns>>

\* lines 50-51
ChatUnavailable(req) ==
  /\ ValidChatRequest(req)
  /\ db = FALSE
  /\ response' = [op |-> "chat", status |-> 500, detail |-> DbDetail, request |-> req]
  /\ UNCHANGED <<db, store, pending, turns>>

HasRoom ==
  /\ BagCardinality(pending) < MaxInFlight
  /\ Len(store) + BagCardinality(pending) + 2 <= MaxStore

ChatBeginReplyFirst(req, uuid) ==
  /\ ValidChatRequest(req)
  /\ db = TRUE
  /\ HasRoom
  /\ LET session_id == SessionFor(req, uuid)
     IN  /\ store' = create_document(store,
                       Message(session_id, "assistant", GenerateReply(req.message)))
         /\ pending' = pending (+) SetToBag({[request |-> req, session_id |-> session_id]})
  /\ UNCHANGED <<db, response, turns>>

\* lines 53-57: the session id is chosen and the user message saved
ChatBegin(req, uuid) ==
  /\ ValidChatRequest(req)
  /\ db = TRUE
  /\ HasRoom
  /\ LET session_id == SessionFor(req, uuid)
     IN  /\ store' = create_document(store, Message(session_id, "user", req.message))
         /\ pending' = pending (+) SetToBag({[request |-> req, session_id |-> session_id]})
  /\ UNCHANGED <<db, response, turns>>

\* line 57: create_document raises, nothing was written
ChatBeginFails(req) ==
  /\ ValidChatRequest(req)
  /\ db = TRUE
  /\ response' = [op |-> "chat", status |-> 500, detail |-> "Internal Server Error",
                  request |-> req]
  /\ UNCHANGED <<db, store, pending, turns>>

\* lines 60-86: the reply is computed and saved, the response returned
ChatFinish(p) ==
  /\ p \in BagToSet(pending)
  /\ LET reply == GenerateReply(p.request.message)
     IN  /\ store' = create_document(store, Message(p.session_id, "assistant", reply))
         /\ response' = [op |-> "chat", status |-> 200, request |-> p.request,
                         session_id |-> p.session_id, reply |-> reply]
         /\ turns' = turns \cup {[request |-> p.request, session_id |-> p.session_id,
                                     reply |-> reply]}
  /\ pending' = pending (-) SetToBag({p})
  /\ UNCHANGED db

\* line 84: create_document raises after the user message was saved
ChatFinishFails(p) ==
  /\ p \in BagToSet(pending)
  /\ response' = [op |-> "chat", status |-> 500, detail |-> "Internal Server Error",
                  request |-> p.request]
  /\ pending' = pending (-) SetToBag({p})
  /\ UNCHANGED <<db, store, turns>>

----------------------------------------------------------------------------
(* GET /api/messages *)

ValidLimitFromZero(n) == n \in 0..MaxLimit

\* limit: int = Query(50, ge=1, le=200)
ValidLimit(n) == n \in MinLimit..MaxLimit

EffectiveLimit(limit) == IF limit = None THEN DefaultLimit ELSE Value(limit)

\* the query passes validation: limit is omitted or within its range
AcceptedLimit(limit) == IF limit = None THEN TRUE ELSE ValidLimit(Value(limit))

\* d.get(key, default)
Get(d, key, default) == IF key \in DOMAIN d THEN d[key] ELSE default

ToMessageNoDefaults(d, session_id) ==
  Message(Get(d, "session_id", session_id), Get(d, "role", "missing"),
          Get(d, "content", <<>>))

\* line 104: the Message built from a stored document
ToMessage(d, session_id) ==
  Message(Get(d, "session_id", session_id), Get(d, "role", "user"),
          Get(d, "content", <<>>))

\* lines 101-106: a document whose Message fails validation is skipped
ConvertDocs(docs, session_id) ==
  SelectSeq([i \in 1..Len(docs) |-> ToMessage(docs[i], session_id)], ValidMessage)

\* the query fails validation: the handler is not entered
GetMessagesRejected(session_id, limit) ==
  /\ ~AcceptedLimit(limit)
  /\ response' = [op |-> "messages", status |-> 422, queried |-> FALSE,
                  query |-> [session_id |-> session_id, limit |-> limit]]
  /\ UNCHANGED <<db, store, pending, turns>>

\* lines 96-97
GetMessagesUnavailable(session_id, limit) ==
  /\ AcceptedLimit(limit)
  /\ db = FALSE
  /\ response' = [op |-> "messages", status |-> 500, detail |-> DbDetail,
                  queried |-> FALSE,
                  query |-> [session_id |-> session_id, limit |-> limit]]
  /\ UNCHANGED <<db, store, pending, turns>>

\* lines 99-108
GetMessages(session_id, limit) ==
  /\ AcceptedLimit(limit)
  /\ db = TRUE
  /\ LET docs == get_documents(store, session_id, EffectiveLimit(limit))
     IN  response' = [op |-> "messages", status |-> 200, queried |-> TRUE,
                      query |-> [session_id |-> session_id, limit |-> limit],
                      fetch_limit |-> EffectiveLimit(limit), docs |-> docs,
                      session_id |-> session_id,
                      messages |-> ConvertDocs(docs, session_id)]
  /\ UNCHANGED <<db, store, pending, turns>>

----------------------------------------------------------------------------
(* The other endpoints *)

\* GET /
ReadRoot ==
  /\ response' = [op |-> "root", status |-> 200, name |-> "Vionix"]
  /\ UNCHANGED <<db, store, pending, turns>>

\* GET /api/hello
Hello ==
  /\ response' = [op |-> "hello", status |-> 200]
  /\ UNCHANGED <<db, store, pending, turns>>

\* GET /test: collections_ok is whether db.list_collection_names() returns.
\* The two flags read from the environment do not depend on the state of the
\* service and are left out of the response.
TestDatabase(collections_ok) ==
  /\ response' =
       [op |-> "test", status |-> 200,
        database |-> IF db = FALSE THEN "Available but not initialized"
                     ELSE IF collections_ok THEN "Connected & Working"
                     ELSE "Connected but Error",
        connection_status |-> IF db THEN "Connected" ELSE "Not Connected"]
  /\ UNCHANGED <<db, store, pending, turns>>

----------------------------------------------------------------------------
(* The service: the store starts empty and only the service writes to it *)

NoResponse == [op |-> "none"]

Init ==
  /\ db \in BOOLEAN
  /\ store = <<>>
  /\ pending = EmptyBag
  /\ response = NoResponse
  /\ turns = {}

Pending == BagToSet(pending)

Next ==
  \/ \E req \in ChatRequests : ChatRejected(req)
  \/ \E req \in ChatRequests : ChatUnavailable(req)
  \/ \E req \in ChatRequests, uuid \in Uuids : ChatBegin(req, uuid)
  \/ \E req \in ChatRequests : ChatBeginFails(req)
  \/ \E p \in Pending : ChatFinish(p)
  \/ \E p \in Pending : ChatFinishFails(p)
  \/ \E s \in QuerySessions, l \in LimitArgs : GetMessagesRejected(s, l)
  \/ \E s \in QuerySessions, l \in LimitArgs : GetMessagesUnavailable(s, l)
  \/ \E s \in QuerySessions, l \in LimitArgs : GetMessages(s, l)
  \/ ReadRoot
  \/ Hello
  \/ \E c \in BOOLEAN : TestDatabase(c)

Spec == Init /\ [][Next]_vars

----------------------------------------------------------------------------
(* Properties of the service *)

\* documents of the first n of docs that belong to a session and have a role
CountOf(docs, n, session_id, role) ==
  Cardinality({i \in 1..n : /\ "session_id" \in DOMAIN docs[i]
                            /\ docs[i].session_id = session_id
                            /\ "role" \in DOMAIN docs[i]
                            /\ docs[i].role = role})

InSeq(x, s) == \E i \in 1..Len(s) : s[i] = x

StoredSessions == {store[i].session_id : i \in 1..Len(store)}

\* C1, as stated: while the store handle is unavailable, every response of
\* POST /api/chat and of GET /api/messages, whatever the body or the query,
\* is HTTP 500 with the detail "Database not available", and the store is
\* unchanged.
C1_EveryRequestFails500 ==
  db = FALSE =>
    /\ store = <<>>
    /\ response.op \in {"chat", "messages"} =>
         response.status = 500 /\ response.detail = "Database not available"

\* C1, amended: while the store handle is unavailable, every request of
\* POST /api/chat and GET /api/messages that passes input validation (a
\* message of at least one character; limit omitted or within 1..200) fails
\* with HTTP 500 and the detail "Database not available"; a request that
\* fails validation is rejected with 422 before the handler runs; in both
\* cases nothing is written to the store and the store is not queried.
C1_ValidRequestFails500 ==
  db = FALSE =>
    /\ store = <<>>
    /\ pending = EmptyBag
    /\ response.op = "chat" =>
         IF Len(response.request.message) >= 1
           THEN response.status = 500 /\ response.detail = "Database not available"
           ELSE response.status = 422
    /\ response.op = "messages" =>
         /\ response.queried = FALSE
         /\ IF response.query.limit = None \/ response.query.limit \subseteq 1..200
              THEN response.status = 500 /\ response.detail = "Database not available"
              ELSE response.status = 422

\* C1: with the store handle unavailable, a listing with limit 1 has failed
\* with 500
C1_Witness ==
  /\ db = FALSE
  /\ response.op = "messages"
  /\ response.status = 500
  /\ response.query.limit = Some(1)

\* C2, as stated: a successful chat turn has stored the user message with
\* the request's message and the assistant message with the returned reply,
\* both under the returned session_id, which is the request's session_id
\* when one was supplied.
C2_TurnStoredUnderSuppliedSession ==
  (response.op = "chat" /\ response.status = 200) =>
    /\ InSeq(Message(response.session_id, "user", response.request.message), store)
    /\ InSeq(Message(response.session_id, "assistant", response.reply), store)
    /\ response.request.session_id # None =>
         response.session_id = Value(response.request.session_id)

\* C7, as stated: a listing with the default limit of a session that holds
\* no more messages than the limit returns the user message and the
\* assistant message of every completed turn requested with that
\* session_id; it names the queried session and holds at most limit
\* messages.
C7_ListingReturnsCompletedTurns ==
  (/\ response.op = "messages"
   /\ response.status = 200
   /\ response.query.limit = None
   /\ CountOf(store, Len(store), response.query.session_id, "user")
        + CountOf(store, Len(store), response.query.session_id, "assistant") <= 50) =>
    /\ response.session_id = response.query.session_id
    /\ Len(response.messages) <= 50
    /\ \A t \in turns :
         t.request.session_id = Some(response.query.session_id) =>
           /\ InSeq(Message(response.query.session_id, "user", t.request.message),
                    response.messages)
           /\ InSeq(Message(response.query.session_id, "assistant", t.reply),
                    response.messages)

\* C8: GET /api/messages rejects a limit outside 1..200 by validation (422)
\* without querying the store; a limit within 1..200 is accepted and is the
\* limit of the query; an omitted limit is accepted and the query's limit is
\* 50; the listing holds at most limit messages.
C8_LimitValidation ==
  response.op = "messages" =>
    /\ (response.query.limit # None /\ ~(response.query.limit \subseteq 1..200)) =>
         response.status = 422 /\ response.queried = FALSE
    /\ (response.query.limit # None /\ response.query.limit \subseteq 1..200) =>
         /\ response.status # 422
         /\ db = TRUE => /\ response.status = 200
                         /\ response.queried = TRUE
                         /\ Some(response.fetch_limit) = response.query.limit
    /\ response.query.limit = None =>
         /\ response.status # 422
         /\ db = TRUE => /\ response.status = 200
                         /\ response.queried = TRUE
                         /\ response.fetch_limit = 50
    /\ response.status = 200 => Len(response.messages) <= response.fetch_limit

\* C8: limit 0 has been rejected for a session that holds messages
C8_WitnessRejected ==
  /\ response.op = "messages"
  /\ response.status = 422
  /\ response.query.limit = Some(0)
  /\ response.query.session_id \in StoredSessions

\* C10: in the store every assistant message is preceded by a user message
\* of its session whose reply it is, and in every prefix of the store no
\* session has more assistant messages than user messages.
C10_UserBeforeAssistant ==
  /\ \A j \in 1..Len(store) :
       store[j].role = "assistant" =>
         \E i \in 1..(j - 1) : /\ store[i].role = "user"
                               /\ store[i].session_id = store[j].session_id
                               /\ GenerateReply(store[i].content) = store[j].content
  /\ \A n \in 0..Len(store) : \A s \in StoredSessions :
       CountOf(store, n, s, "assistant") <= CountOf(store, n, s, "user")

\* C10: no request is in flight and a user message is stored without its
\* assistant reply, after another turn of the session completed
C10_WitnessUserWithoutReply ==
  /\ pending = EmptyBag
  /\ \E s \in StoredSessions :
       /\ CountOf(store, Len(store), s, "assistant") = 1
       /\ CountOf(store, Len(store), s, "user") = 2

----------------------------------------------------------------------------
(* The rule engine on its own: one chat turn per message, the messages     *)
(* drawn from heads, short bodies and paddings around SummaryLimit         *)

BodyAlphabet == {"a", "h", "I", " ", "\n", "-"}

ShortBodies == UNION {[1..k -> BodyAlphabet] : k \in 0..MaxBody}

SampleBodies ==
  {<<"h", "e", "l", "l", "o">>, <<"H", "e", "Y", " ", "y", "o", "u">>, <<"h", "e", "l", "p", ",", " ", "h", "i">>, <<"W", "h", "a", "t", " ", "c", "a", "n", " ", "y",
                                           "o", "u", " ", "d", "o">>, <<"-", " ", "a", "\n", "-", " ",
                                                                "b">>,
   <<"-", " ", "s", "h", "i", "p", " ", "i", "t", "\n", "-", " ", "b">>, <<" ", "\n", "U+2022", " ", "b", " ", "-", "\n", "\n", "-", "\t", "c",
                         ":", "d">>}

Bodies == ShortBodies \cup SampleBodies

SummaryHeads == {<<"s", "u", "m", "m", "a", "r", "i", "z", "e", ":", " ">>, <<"s", "u", "m", "m", "a", "r", "i", "s", "e", ":", " ">>, <<"S", "U", "M", "M", "A", "R", "I", "Z",
                                                     "E", ":">>}
TodoHeads == {<<"t", "o", "d", "o", ":">>, <<"t", "a", "s", "k", ":", "\n">>, <<" ", "T", "o", "d", "o", ":", "\n">>}

Fill(n) == [i \in 1..n |-> "x"]

Paddings ==
  {Fill(n) \o t : n \in (SummaryLimit - 1)..(SummaryLimit + MaxOver),
                  t \in {<<>>, <<" ">>}}

ReplyMessages ==
  {h \o b : h \in {<<>>} \cup SummaryHeads \cup TodoHeads, b \in Bodies}
    \cup {h \o b \o p : h \in {<<>>} \cup SummaryHeads, b \in Bodies, p \in Paddings}

ReplyRequests == [session_id : {None}, message : ReplyMessages]

\* no request was made yet
Fresh == response = NoResponse /\ store = <<>> /\ pending = EmptyBag

NextReply ==
  \/ Fresh /\ \E req \in ReplyRequests : ChatRejected(req)
  \/ Fresh /\ \E req \in ReplyRequests : ChatUnavailable(req)
  \/ Fresh /\ \E req \in ReplyRequests : ChatBegin(req, "uuid-1")
  \/ \E p \in Pending : ChatFinish(p)

SpecReply == Init /\ [][NextReply]_vars

\* the two cases of a lower-case letter; any other character alone
BothCases(c) ==
  {c} \cup {UpperLetters[k] : k \in {n \in 1..Len(LowerLetters) : LowerLetters[n] = c}}

\* s holds the lower-case word, compared letter by letter without regard
\* to case
HoldsWord(s, word) ==
  LET cases == [j \in 1..Len(word) |-> BothCases(word[j])]
  IN  \E i \in 0..(Len(s) - Len(word)) :
        \A j \in 1..Len(word) : s[i + j] \in cases[j]

HoldsGreetingWord(s) ==
  HoldsWord(s, <<"h", "e", "l", "l", "o">>) \/ HoldsWord(s, <<"h", "i">>) \/ HoldsWord(s, <<"h", "e", "y">>)

HoldsHelpWord(s) == HoldsWord(s, <<"h", "e", "l", "p">>) \/ HoldsWord(s, <<"w", "h", "a", "t", " ", "c",
                                                             "a", "n", " ", "y", "o", "u",
                                                             " ", "d", "o">>)

Replied == response.op = "chat" /\ response.status = 200

\* C3: the reply to every message that holds "hello", "hi" or "hey", in
\* any case and anywhere, starts with the greeting template.
C3_GreetingWins ==
  (Replied /\ HoldsGreetingWord(response.request.message)) =>
    /\ StartsWith(response.reply, <<"H", "e", "l", "l", "o", "!", " ", "I", "'", "m", " ",
                                    "V", "i", "o", "n", "i", "x", ",", " ">>)
    /\ response.reply = GreetingReply

\* C3: a message that is also a todo list and also asks for help was greeted
C3_Witness ==
  /\ Replied
  /\ HoldsWord(response.request.message, <<"h", "i">>)
  /\ HoldsHelpWord(response.request.message)
  /\ StartsWith(response.request.message, <<"t", "o", "d", "o", ":">>)
  /\ response.reply = GreetingReply

\* the <text> of a message "summarize: <text>" or "summarise: <text>"
IsSummaryForm(message) ==
  StartsWith(message, <<"s", "u", "m", "m", "a", "r", "i", "z", "e", ":", " ">>) \/ StartsWith(message, <<"s", "u", "m", "m", "a", "r",
                                                                "i", "s", "e", ":", " ">>)
SummaryText(message) == SubSeq(message, 12, Len(message))

\* C4, as stated: for every message "summarize: <text>" or
\* "summarise: <text>" with <text> longer than 200 characters the reply
\* holds the first 200 characters of <text> followed by the ellipsis.
C4_SummaryOfEveryText ==
  (/\ Replied
   /\ IsSummaryForm(response.request.message)
   /\ Len(SummaryText(response.request.message)) > 200) =>
    Contains(response.reply,
             SubSeq(SummaryText(response.request.message), 1, 200) \o <<"U+2026">>)

\* C4, amended: for every message "summarize: <text>" or "summarise: <text>"
\* that holds none of "hello", "hi", "hey", "help", "what can you do" (in any
\* case), with <text> longer than 200 characters and neither starting nor
\* ending with whitespace, the reply is the summary header, the first 200
\* characters of <text> and the ellipsis.
C4_SummaryOfPlainText ==
  (/\ Replied
   /\ IsSummaryForm(response.request.message)
   /\ Len(SummaryText(response.request.message)) > 200
   /\ ~HoldsGreetingWord(response.request.message)
   /\ ~HoldsHelpWord(response.request.message)
   /\ Head(SummaryText(response.request.message)) \notin {" ", "\n", "\t", "\r", "\f"}
   /\ response.request.message[Len(response.request.message)]
        \notin {" ", "\n", "\t", "\r", "\f"}) =>
    /\ Contains(response.reply,
                SubSeq(SummaryText(response.request.message), 1, 200) \o <<"U+2026">>)
    /\ Len(response.reply) = Len(SummaryHeader) + 201
    /\ response.reply[Len(response.reply)] = "U+2026"

\* C4: a text of more than 200 characters was cut to 200 and the ellipsis
C4_Witness ==
  /\ Replied
  /\ StartsWith(response.request.message, <<"s", "u", "m", "m", "a", "r", "i", "s", "e", ":",
                                            " ">>)
  /\ Len(SummaryText(response.request.message)) = 202
  /\ ~HoldsGreetingWord(response.request.message)
  /\ response.reply[Len(response.reply)] = "U+2026"

IsTodoForm(message) ==
  StartsWith(message, <<"t", "o", "d", "o", ":">>) \/ StartsWith(message, <<"t", "a", "s", "k", ":">>)

\* item is line without the spaces, dashes and bullets at its two ends
IsItemOf(item, line) ==
  \E a \in 1..(Len(line) + 1) :
    /\ \A i \in 1..(a - 1) : line[i] \in {" ", "-", "U+2022"}
    /\ a <= Len(line) => line[a] \notin {" ", "-", "U+2022"}
    /\ \E b \in (a - 1)..Len(line) :
         /\ \A i \in (b + 1)..Len(line) : line[i] \in {" ", "-", "U+2022"}
         /\ b >= a => line[b] \notin {" ", "-", "U+2022"}
         /\ item = SubSeq(line, a, b)

HasText(line) == \E i \in 1..Len(line) : line[i] \notin {" ", "\n", "\t", "\r", "\f"}
NonEmpty(line) == Len(line) > 0

\* the reply is the list header and one bullet per line of lines, in order
ListsAsBullets(reply, lines) ==
  LET shown == Split(reply, "\n")
  IN  /\ shown[1] = <<"A", "d", "d", "e", "d", " ", "t", "o", " ", "y", "o", "u", "r", " ",
                      "l", "i", "s", "t", ":">>
      /\ Len(shown) = Len(lines) + 1
      /\ \A i \in 1..Len(lines) :
           /\ StartsWith(shown[i + 1], <<"U+2022", " ">>)
           /\ IsItemOf(SubSeq(shown[i + 1], 3, Len(shown[i + 1])), lines[i])

\* C5, as stated: the reply to every message that starts with "todo:" or
\* "task:" lists one bullet per non-empty line of the message, in order.
C5_BulletPerNonEmptyLine ==
  (Replied /\ IsTodoForm(response.request.message)) =>
    ListsAsBullets(response.reply,
                   SelectSeq(Split(response.request.message, "\n"), NonEmpty))

\* C5, amended: the reply to every message that starts with "todo:" or
\* "task:" and holds none of "hello", "hi", "hey", "help", "what can you do"
\* (in any case) is the list header followed by one bullet per line of the
\* message that holds a non-whitespace character (the "todo:" line
\* included), in the order of the message, each bullet showing its line
\* without the spaces, dashes and bullets at its two ends.
C5_BulletPerLineWithText ==
  (/\ Replied
   /\ IsTodoForm(response.request.message)
   /\ ~HoldsGreetingWord(response.request.message)
   /\ ~HoldsHelpWord(response.request.message)) =>
    ListsAsBullets(response.reply,
                   SelectSeq(Split(response.request.message, "\n"), HasText))

\* C5: a list with a blank line between its items was shown as bullets
C5_Witness ==
  /\ Replied
  /\ response.request.message = <<"t", "o", "d", "o", ":", " ", "\n", "U+2022", " ", "b",
                                  " ", "-", "\n", "\n", "-", "\t", "c", ":", "d">>
  /\ response.reply = <<"A", "d", "d", "e", "d", " ", "t", "o", " ", "y", "o", "u", "r", " ",
                        "l", "i", "s", "t", ":", "\n", "U+2022", " ", "t", "o", "d", "o",
                        ":", "\n", "U+2022", " ", "b", "\n", "U+2022", " ", "\t", "c", ":",
                        "d">>

----------------------------------------------------------------------------
(* The service over a store that already holds documents it did not write: *)
(* the store is external, and the listing reads whatever it holds          *)

\* documents of the store before the service starts
MaxForeign == 2

ForeignDocs ==
  {[session_id |-> "a", role |-> "user", content |-> <<"h", "i">>, _id |-> "1"],
   [session_id |-> "a", content |-> <<"o", "k">>],
   [session_id |-> "a", role |-> "assistant"],
   [session_id |-> "a", role |-> "system", content |-> <<"o", "k">>],
   [role |-> "user", content |-> <<"o", "k">>]}

ForeignStores == UNION {[1..k -> ForeignDocs] : k \in 0..MaxForeign}

InitForeign ==
  /\ db \in BOOLEAN
  /\ store \in ForeignStores
  /\ pending = EmptyBag
  /\ response = NoResponse
  /\ turns = {}

SpecForeign == InitForeign /\ [][Next]_vars

Listed == response.op = "messages" /\ response.status = 200

\* a stored record with its role and its content, the role user or assistant
WellFormed(d) ==
  /\ {"role", "content"} \subseteq DOMAIN d
  /\ d.role \in {"user", "assistant"}

\* the documents the listing read
ReadDocs == response.docs

\* the documents read are the first of the session's documents, in the
\* order of the store (which may have grown since), and at most limit
ReadInStoreOrder ==
  LET OfSession(d) == "session_id" \in DOMAIN d
                        /\ d.session_id = response.query.session_id
      all == SelectSeq(store, OfSession)
  IN  /\ Len(ReadDocs) <= response.fetch_limit
      /\ Len(ReadDocs) <= Len(all)
      /\ ReadDocs = SubSeq(all, 1, Len(ReadDocs))

\* C9, as stated: a listing leaves out every record it read that misses its
\* role or its content or whose role is neither user nor assistant, and
\* returns the well-formed records it read, in the store's order.
C9_MalformedLeftOut ==
  Listed =>
    LET kept == SelectSeq(ReadDocs, WellFormed)
    IN  /\ ReadInStoreOrder
        /\ Len(response.messages) = Len(kept)
        /\ \A i \in 1..Len(kept) :
             response.messages[i] = Message(kept[i].session_id, kept[i].role,
                                            kept[i].content)

HasValidRole(d) == "role" \notin DOMAIN d \/ d.role \in {"user", "assistant"}

\* C9, amended: a listing succeeds and leaves out every record it read
\* whose role is present and is neither user nor assistant; a record that
\* misses its role or its content is not left out: it is returned with the
\* role user or the empty content in place of the missing field; the
\* records returned are in the store's order.
C9_InvalidRoleLeftOut ==
  Listed =>
    LET kept == SelectSeq(ReadDocs, HasValidRole)
    IN  /\ ReadInStoreOrder
        /\ Len(response.messages) = Len(kept)
        /\ \A i \in 1..Len(kept) :
             /\ response.messages[i].session_id = response.query.session_id
             /\ response.messages[i].role =
                  (IF "role" \in DOMAIN kept[i] THEN kept[i].role ELSE "user")
             /\ response.messages[i].content =
                  (IF "content" \in DOMAIN kept[i] THEN kept[i].content ELSE <<>>)

\* C9: a listing read a record with the role system and a record without a
\* role, left the first out and returned the second
C9_Witness ==
  /\ Listed
  /\ Len(ReadDocs) = 2
  /\ "role" \in DOMAIN ReadDocs[1] /\ ReadDocs[1].role = "system"
  /\ "role" \notin DOMAIN ReadDocs[2]
  /\ Len(response.messages) = 1
  /\ response.messages[1].role = "user"

====
